---- MODULE Spec2Model ----
(* Event engine of ripplex: router queue, interceptor chain executor,     *)
(* effect executor and error handler, as one state machine whose steps    *)
(* are the code between two suspension points (await) of the sources.     *)
EXTENDS Integers, Sequences, FiniteSets, TLC

(* ---------------- bounds ---------------- *)
\* number of dispatch calls made by callers outside the engine
MaxDispatch == 2

\* state changes that may be waiting for one animation frame
MaxPending == 3

\* Subscription objects created over a run
MaxObjects == 2

(* ---------------- vocabulary ---------------- *)
\* event keys callers dispatch; "ghost" has no registered handler
EventKeys == {"inc", "fxev", "ghost"}

\* an absent / null effect config and the null fx tuple
Null == "null"

\* interceptors supplied by the caller at registration
i1 == [id |-> "i1", before |-> TRUE, after |-> TRUE]
i2 == [id |-> "i2", before |-> TRUE, after |-> TRUE]

\* a caller's interceptor whose before returns a context with coeffects.db
\* replaced
i3 == [id |-> "i3", before |-> TRUE, after |-> TRUE]

\* the value i3 puts in coeffects.db
Focused == 5

VARIABLES
  errorHandlerConfig, \* errorHandler.ts: { rethrow }
  registrar,          \* registrar.ts: handlers, (kind, id) -> handler
  state,              \* createStateManager: let state
  eventQueue,         \* router: const eventQueue
  isProcessing,       \* router: let isProcessing
  dispatches,         \* one entry per dispatch call: its promise and caller
  drainOwner,         \* the call whose promise follows the running processQueue
  pc,                 \* position of the drain / handleEvent / execute
  errRet,             \* which catch block awaits errorHandler.handle
  cur,                \* the event handleEvent is running for
  context,            \* handleEvent: let context
  eventError,         \* handleEvent: let eventError
  effectsExecuted,    \* handleEvent: const effectsExecuted
  stateBefore,        \* handleEvent: const stateBefore
  ran,                \* before/after functions invoked for cur, in order
  tasks,              \* parallel-stage handler invocations
  fxIdx,              \* fx handler: position in seqOfEffects
  fxLog,              \* fx handler: entry handlers called and settled, in order
  expected,           \* the count after the increments handled so far
  done,               \* number of handleEvent calls that have returned
  lastHandle,         \* the latest engine step when errorHandler.handle
                      \* settled in it after the registered handler threw
  coeffectProviders,  \* createStore: config.coeffects, "returns" or "throws"
  lastFlush,          \* the latest engine step when a promise returned by
                      \* flush settled in it: "resolved" or "rejected"
  stateChanges,       \* createStateManager: const stateChanges
  rafId,              \* createStateManager: let rafId (0 is null)
  notified,           \* callbacks the latest animation-frame callback invoked
  lastSet,            \* the latest state manager call when it was setState:
                      \* its argument and the state it found
  registry,           \* SubscriptionRegistry: its maps, and the objects created
  closures,           \* per subscriber: the unsubscribe closure it was returned
  lastQuery,          \* the latest registry call when it was a query: its
                      \* arguments, result and compute/combine invocations
  lastCall,           \* the latest registry call when it was subscribe, the
                      \* closure subscribe returned, or notifyListeners
  delivered           \* per Subscription object: the result its listeners
                      \* were called with last

\* the event engine's variables other than the state cell
engineVars == <<errorHandlerConfig, registrar, eventQueue, isProcessing,
                dispatches, drainOwner, pc, errRet, cur, context, eventError,
                effectsExecuted, stateBefore, ran, tasks, fxIdx, fxLog,
                expected, done, lastHandle, coeffectProviders, lastFlush>>

\* the variables of the notification batching and of the subscriptions
storeVars == <<stateChanges, rafId, notified, lastSet, registry, closures,
               lastQuery, lastCall, delivered>>

vars == <<state, engineVars, storeVars>>

(* ---------------- registration ---------------- *)
\* dbHandlerToInterceptor: id 'db-handler', before only
dbHandlerToInterceptor == [id |-> "db-handler", before |-> TRUE, after |-> FALSE]

\* fxHandlerToInterceptor: id 'fx-handler', before only
fxHandlerToInterceptor == [id |-> "fx-handler", before |-> TRUE, after |-> FALSE]

\* registerEventDb: the handler wrapper is appended after the interceptors
registerEventDb(interceptors) == interceptors \o <<dbHandlerToInterceptor>>

\* registerEvent: the handler wrapper is appended after the interceptors
registerEvent(interceptors) == interceptors \o <<fxHandlerToInterceptor>>

EmptyEffects == [hasDb |-> FALSE, db |-> 0, par |-> <<>>, hasFx |-> FALSE, fx |-> <<>>]

NoEvent == [eventKey |-> "none", id |-> 0]

\* an error value is named by the place that threw it
NoError == [at |-> "none", id |-> "none"]

NoCatch == [site |-> "none", error |-> NoError]

NoHandle == [site |-> "none", handler |-> "none"]

EmptyContext == [coeffects |-> [db |-> 0, cofx |-> "none"], effects |-> EmptyEffects,
                 queue |-> <<>>, stack |-> <<>>]

(* ---------------- path interceptor (interceptor.ts) ---------------- *)
\* a state object is the set of its leaves, each a pair of the keys leading
\* to it and the number stored there; the empty set is undefined
PathState == { << <<"a", "b">>, 1 >>, << <<"a", "c">>, 2 >>, << <<"d">>, 3 >> }

\* keys is a prefix of the key sequence p
KeysPrefix(keys, p) == Len(keys) <= Len(p) /\ SubSeq(p, 1, Len(keys)) = keys

\* path, before: value = value?.[key] for every key of pathKeys
getIn(db, pathKeys) ==
  { << SubSeq(e[1], Len(pathKeys) + 1, Len(e[1])), e[2] >> :
      e \in {x \in db : KeysPrefix(pathKeys, x[1])} }

\* path, after: newDb is originalDb copied along pathKeys with the value at
\* pathKeys set to focusedState
assocIn(originalDb, pathKeys, focusedState) ==
  {e \in originalDb : ~KeysPrefix(pathKeys, e[1]) /\ ~KeysPrefix(e[1], pathKeys)}
    \cup { << pathKeys \o f[1], f[2] >> : f \in focusedState }

\* id: `path-${pathKeys.join('.')}`
PathId(pathKeys) ==
  IF pathKeys = <<"a">> THEN "path-a"
  ELSE IF pathKeys = <<"b">> THEN "path-b"
  ELSE "path-a.b"

\* the pathKeys the interceptor with this id closes over
PathKeys(id) ==
  IF id = "path-a" THEN <<"a">>
  ELSE IF id = "path-b" THEN <<"b">>
  ELSE <<"a", "b">>

IsPath(id) == id \in {"path-a", "path-b", "path-a.b"}

\* path(pathKeys): an interceptor with before and after
path(pathKeys) == [id |-> PathId(pathKeys), before |-> TRUE, after |-> TRUE]

\* the db handler of the events pth and pth2: the state it is given with 10
\* added to every number in it, and 10 when it is given undefined
Bump(db) ==
  IF db = {} THEN { << <<>>, 10 >> }
  ELSE { << e[1], e[2] + 10 >> : e \in db }

\* the event keys an array-valued effect config lists, in order; two-entry
\* arrays are named by their entries
Entries(config) ==
  IF config = "fxev,inc" THEN <<"fxev", "inc">>
  ELSE IF config = "inc,dereg" THEN <<"inc", "dereg">>
  ELSE <<config>>

\* the effect map the registered handler of eventKey returns for coeffects
HandlerEffects(eventKey, coeffects) ==
  IF eventKey = "inc"
  THEN [EmptyEffects EXCEPT !.hasDb = TRUE, !.db = coeffects.db + 1]
  ELSE IF eventKey \in {"pth", "pth2"}
  THEN [EmptyEffects EXCEPT !.hasDb = TRUE, !.db = Bump(coeffects.db)]
  ELSE IF eventKey = "many"
  THEN [EmptyEffects EXCEPT !.par = << [kind |-> "dispatch-n", config |-> "fxev,inc"] >>]
  ELSE IF eventKey = "dereg"
  THEN [hasDb |-> TRUE, db |-> coeffects.db + 3,
        par |-> << [kind |-> "deregister-event-handler", config |-> "inc,dereg"],
                   [kind |-> "a", config |-> "cfg"] >>,
        hasFx |-> TRUE,
        fx |-> << [kind |-> "b", config |-> "cfg"] >>]
  ELSE [hasDb |-> TRUE, db |-> coeffects.db + 2,
        par |-> << [kind |-> "a", config |-> "cfg"],
                   [kind |-> "dispatch", config |-> "inc"],
                   [kind |-> "nohandler", config |-> "cfg"],
                   [kind |-> "c", config |-> Null],
                   [kind |-> "b", config |-> "cfg"] >>,
        hasFx |-> TRUE,
        fx |-> << [kind |-> "a", config |-> "cfg"],
                  [kind |-> Null, config |-> Null],
                  [kind |-> "db", config |-> "cfg"],
                  [kind |-> "nohandler", config |-> "cfg"],
                  [kind |-> "b", config |-> "cfg"] >>]

\* effect kinds registerBuiltInEffects registers besides db
BuiltInKinds == {"fx", "dispatch", "dispatch-n", "deregister-event-handler"}

\* registerBuiltInEffects plus the user handlers a, b, c; dbKind is the
\* handler stored under ('effect','db')
InitRegistrar(dbKind) ==
  [event  |-> [k \in EventKeys |->
                 IF k = "inc" THEN registerEventDb(<<i1, i2>>)
                 ELSE IF k = "fxev" THEN registerEvent(<<i3>>)
                 ELSE <<>>],
   effect |-> [k \in {"db", "fx", "dispatch", "dispatch-n",
                       "deregister-event-handler", "a", "b", "c", "nohandler"} |->
                 IF k = "db" THEN dbKind
                 ELSE IF k \in BuiltInKinds THEN "builtin"
                 ELSE IF k \in {"a", "b", "c"} THEN "user"
                 ELSE "none"]]

\* a store that registers the events many (no interceptors; its handler
\* declares dispatch-n) and dereg (interceptor i1; its handler declares
\* deregister-event-handler) besides inc and fxev
ManyRegistrar ==
  [event  |-> [k \in EventKeys \cup {"many", "dereg"} |->
                 IF k = "many" THEN registerEvent(<<>>)
                 ELSE IF k = "dereg" THEN registerEvent(<<i1>>)
                 ELSE InitRegistrar("builtin").event[k]],
   effect |-> InitRegistrar("builtin").effect]

\* a store that registers pth with path(a) and pth2 with path(a), path(b),
\* both with registerEventDb
PathRegistrar ==
  [event  |-> [k \in {"pth", "pth2"} |->
                 IF k = "pth" THEN registerEventDb(<<path(<<"a">>)>>)
                 ELSE registerEventDb(<<path(<<"a">>), path(<<"b">>)>>)],
   effect |-> InitRegistrar("builtin").effect]

(* ---------------- store vocabulary ---------------- *)
\* references to state objects; two references may hold equal contents
StateRefs == 0..2

\* the value null as a result
NullResult == -3

\* state.count of the state object s: null in the objects 0 and 1, 1 in 2
Content(s) == IF s < 2 THEN NullResult ELSE s \div 2

\* subscription keys callers use; "ghost" is not registered
SubKeys == {"count", "twice", "ghost"}

\* parameter lists callers pass; dependencies are queried with the empty list
Params == {<<"null">>}

\* callers of subscribe; each subscribes once and keeps the closure
Subscribers == {"A", "B"}

\* listener callbacks callers pass to subscribe
Callbacks == {"f"}

NoClosure == [subscription |-> 0, callback |-> "none", key |-> "none",
              params |-> <<>>]

\* the value undefined, and NaN, as results
Undefined == -1
NaN == -2

\* JSON.stringify of a parameter list: null and undefined elements both
\* serialize to null
stringify(params) ==
  IF params = <<>> THEN "[]"
  ELSE IF params[1] \in {"null", "undefined"} THEN "[null]"
  ELSE "[?]"

\* getCacheKey: `${key}:${JSON.stringify(params)}`
getCacheKey(key, params) == <<key, stringify(params)>>

CacheKeys == SubKeys \X {"[]", "[null]"}

NoCache == [has |-> FALSE, state |-> 0, result |-> Undefined]

\* a registry with nothing cached; objects lists the Subscription objects
\* created so far, an object being named by its position, and the weak maps
\* are indexed by object (an object without cache entry has NoCache)
EmptyRegistry ==
  [objects |-> <<>>,
   subscriptionCache |-> [c \in CacheKeys |-> 0],
   resultCache |-> <<>>,
   refCounts |-> <<>>,
   listeners |-> <<>>]

NoSet == [called |-> FALSE, arg |-> 0, old |-> 0]

NoQuery == [state |-> 0, key |-> "none", params |-> <<>>, result |-> Undefined,
            computed |-> <<>>, threw |-> FALSE, handled |-> <<>>]

\* no listener of the object has been called
NoDelivery == [has |-> FALSE, result |-> Undefined]

NoCall == [op |-> "none", who |-> "none", state |-> 0, result |-> Undefined,
           computed |-> <<>>, threw |-> FALSE, handled |-> <<>>,
           logged |-> <<>>, called |-> <<>>]

\* the parts of a store after createStore that do not depend on what the
\* caller registers
Fresh ==
  /\ stateChanges = <<>>
  /\ rafId = 0
  /\ notified = <<>>
  /\ lastSet = NoSet
  /\ registry = EmptyRegistry
  /\ closures = [a \in Subscribers |-> NoClosure]
  /\ lastQuery = NoQuery
  /\ lastCall = NoCall
  /\ delivered = <<>>
  /\ errorHandlerConfig \in {[rethrow |-> FALSE], [rethrow |-> TRUE]}
  /\ eventQueue = <<>>
  /\ isProcessing = FALSE
  /\ dispatches = <<>>
  /\ drainOwner = 0
  /\ pc = "idle"
  /\ errRet = NoCatch
  /\ cur = NoEvent
  /\ context = EmptyContext
  /\ eventError = NoError
  /\ effectsExecuted = <<>>
  /\ stateBefore = 0
  /\ ran = <<>>
  /\ tasks = {}
  /\ fxIdx = 0
  /\ fxLog = <<>>
  /\ expected = 0
  /\ done = 0
  /\ lastHandle = NoHandle
  /\ lastFlush = "none"

\* the store after createStore, whatever its coeffect providers
Created ==
  /\ Fresh
  /\ registrar \in {InitRegistrar("builtin"), InitRegistrar("userThrows")}
  /\ state = 0

\* a store whose coeffect providers return
Init ==
  /\ Created
  /\ coeffectProviders = "returns"

(* ---------------- error handler (errorHandler.ts) ---------------- *)
handleEscapes(handler) ==
  IF handler = "throw" THEN "throw"
  ELSE IF errorHandlerConfig.rethrow THEN "throw" ELSE "return"

\* handle: awaits the registered handler, whose outcome is handler; the
\* try block re-throws the original error when rethrow is set, and the
\* catch block, entered when the handler throws or rejects, logs and
\* re-throws the original error when rethrow is set
handle(handler) ==
  IF handler = "ok"
  THEN IF errorHandlerConfig.rethrow THEN "throw" ELSE "return"
  ELSE IF errorHandlerConfig.rethrow THEN "throw" ELSE "return"

(* ---------------- state manager ---------------- *)
setStateKeep(old, new) == old

setStateBump(old, new) == new + 1

\* setState: replaces the state unless the new value is the same reference
setState(old, new) == IF old = new THEN old ELSE new

(* ---------------- router (part_000) ---------------- *)
EnqueueFront(q, e) == <<e>> \o q

\* eventQueue.push({ eventKey, payload })
Enqueue(q, e) == Append(q, e)

\* number of dispatch calls made from outside the engine so far
ExternalCalls == Cardinality({i \in 1..Len(dispatches) : dispatches[i].parent = 0})

\* promise of dispatch call i settles as st
Settle(ds, i, st) == IF i = 0 THEN ds ELSE [ds EXCEPT ![i].promise = st]

\* JavaScript runs to completion: from the call of processQueue through the
\* shift, the before and after loops to the call of the db handler there is
\* no await, so no caller and no handler completion runs in between
Suspended == pc \notin {"start", "before", "after", "db"}

\* dispatch called by a caller outside the engine
Dispatch(eventKey) ==
  /\ Suspended
  /\ ExternalCalls < MaxDispatch
  /\ LET id == Len(dispatches) + 1 IN
     /\ eventQueue' = Enqueue(eventQueue, [eventKey |-> eventKey, id |-> id])
     /\ IF ~isProcessing
        THEN /\ isProcessing' = TRUE
             /\ pc' = "start"
             /\ drainOwner' = id
             /\ dispatches' = Append(dispatches, [parent |-> 0, promise |-> "pending"])
        ELSE /\ dispatches' = Append(dispatches, [parent |-> 0, promise |-> "resolved"])
             /\ UNCHANGED <<isProcessing, pc, drainOwner>>
  /\ lastHandle' = NoHandle
  /\ lastFlush' = "none"
  /\ UNCHANGED <<storeVars, fxLog, expected, errorHandlerConfig, coeffectProviders, registrar, state, errRet, cur, context,
                 eventError, effectsExecuted, stateBefore, ran, tasks, fxIdx, done>>

\* flush called while no drain is in progress: processQueue() with no
\* event pushed starts a drain, whose promise the promise of flush follows
Flush ==
  /\ Suspended
  /\ ~isProcessing
  /\ isProcessing' = TRUE
  /\ pc' = "start"
  /\ drainOwner' = 0
  /\ lastHandle' = NoHandle
  /\ lastFlush' = "none"
  /\ UNCHANGED <<storeVars, fxLog, expected, errorHandlerConfig, coeffectProviders, registrar, state, eventQueue, dispatches,
                 errRet, cur, context, eventError, effectsExecuted, stateBefore,
                 ran, tasks, fxIdx, done>>

\* flush called while a drain is in progress: processQueue returns at once
\* and the promise of flush resolves
FlushBusy ==
  /\ Suspended
  /\ isProcessing
  /\ lastFlush' = "resolved"
  /\ lastHandle' = NoHandle
  /\ UNCHANGED <<storeVars, fxLog, expected, errorHandlerConfig, coeffectProviders, registrar, state, eventQueue, dispatches,
                 isProcessing, pc, drainOwner, errRet, cur, context, eventError,
                 effectsExecuted, stateBefore, ran, tasks, fxIdx, done>>

\* processQueue: the while condition fails; finally clears isProcessing and
\* the promise of processQueue resolves
DrainEnd ==
  /\ pc \in {"start", "drain"}
  /\ eventQueue = <<>>
  /\ isProcessing' = FALSE
  /\ pc' = "idle"
  /\ dispatches' = Settle(dispatches, drainOwner, "resolved")
  /\ drainOwner' = 0
  /\ lastHandle' = NoHandle
  /\ lastFlush' = IF drainOwner = 0 THEN "resolved" ELSE "none"
  /\ UNCHANGED <<storeVars, fxLog, expected, errorHandlerConfig, coeffectProviders, registrar, state, eventQueue, errRet, cur,
                 context, eventError, effectsExecuted, stateBefore, ran, tasks,
                 fxIdx, done>>

(* ---------------- event manager (events.ts) ---------------- *)
NoChainNever(interceptors) == FALSE

\* !interceptors || interceptors.length === 0
NoChain(interceptors) == Len(interceptors) = 0

\* processQueue shifts the head event; handleEvent looks the chain up, calls
\* the coeffect providers (cofx is their outcome) and builds the initial
\* context; a provider that throws makes handleEvent reject at once
StartEvent(cofx) ==
  /\ pc \in {"start", "drain"}
  /\ eventQueue # <<>>
  /\ LET event == Head(eventQueue)
         interceptors == registrar.event[event.eventKey]
     IN
     /\ eventQueue' = Tail(eventQueue)
     /\ cofx = "throw" => coeffectProviders = "throws" /\ ~NoChain(interceptors)
     /\ IF NoChain(interceptors)
        THEN /\ done' = done + 1
             /\ pc' = "drain"
             /\ UNCHANGED <<cur, context, stateBefore>>
        ELSE IF cofx = "throw"
        THEN /\ cur' = event
             /\ stateBefore' = state
             /\ pc' = "reject"
             /\ UNCHANGED <<context, done>>
        ELSE /\ cur' = event
             /\ stateBefore' = state
             /\ context' = [coeffects |-> [db |-> state, cofx |-> "provided"],
                            effects |-> EmptyEffects,
                            queue |-> interceptors,
                            stack |-> <<>>]
             /\ pc' = "before"
             /\ UNCHANGED done
  /\ lastHandle' = NoHandle
  /\ lastFlush' = "none"
  /\ UNCHANGED <<storeVars, fxLog, expected, errorHandlerConfig, coeffectProviders, registrar, state, isProcessing, dispatches,
                 drainOwner, errRet, eventError, effectsExecuted, ran, tasks,
                 fxIdx>>

ApplyBeforeStale(interceptor, ctx) ==
  IF interceptor.id \in {"db-handler", "fx-handler"}
  THEN [ctx EXCEPT !.effects = HandlerEffects(cur.eventKey, [db |-> 0])]
  ELSE IF interceptor.id = "i3"
  THEN [ctx EXCEPT !.coeffects.db = Focused]
  ELSE ctx

\* path, before: the coeffects get _originalDb and _pathKeys, and db is
\* replaced by the value at the path
pathBefore(pathKeys, ctx) ==
  [ctx EXCEPT !.coeffects = [db |-> getIn(ctx.coeffects.db, pathKeys),
                             cofx |-> ctx.coeffects.cofx,
                             originalDb |-> ctx.coeffects.db,
                             pathKeys |-> pathKeys]]

\* path, after: pathKeys and originalDb are read from the coeffects, not
\* from the closure; with a db effect the effect becomes originalDb with the
\* value at pathKeys set to it, and coeffects.db becomes originalDb again
pathAfter(ctx) ==
  IF "pathKeys" \notin DOMAIN ctx.coeffects \/ ctx.coeffects.originalDb = {}
  THEN ctx
  ELSE IF ctx.effects.hasDb /\ ctx.effects.db # {}
  THEN [ctx EXCEPT !.coeffects.db = ctx.coeffects.originalDb,
                   !.effects.db = assocIn(ctx.coeffects.originalDb,
                                          ctx.coeffects.pathKeys,
                                          ctx.effects.db)]
  ELSE [ctx EXCEPT !.coeffects.db = ctx.coeffects.originalDb]

\* interceptor.before(context) of a caller interceptor or a handler wrapper
ApplyBefore(interceptor, ctx) ==
  IF interceptor.id \in {"db-handler", "fx-handler"}
  THEN [ctx EXCEPT !.effects = HandlerEffects(cur.eventKey, ctx.coeffects)]
  ELSE IF interceptor.id = "i3"
  THEN [ctx EXCEPT !.coeffects.db = Focused]
  ELSE IF IsPath(interceptor.id)
  THEN pathBefore(PathKeys(interceptor.id), ctx)
  ELSE ctx

\* interceptor.after(context)
ApplyAfter(interceptor, ctx) ==
  IF IsPath(interceptor.id) THEN pathAfter(ctx) ELSE ctx

PopFront(stack) == [top |-> Head(stack), rest |-> Tail(stack)]

\* context.stack.pop(): the interceptor removed and the stack left
Pop(stack) == [top |-> stack[Len(stack)], rest |-> SubSeq(stack, 1, Len(stack) - 1)]

PushFront(stack, interceptor) == <<interceptor>> \o stack

\* context.stack.push(interceptor)
Push(stack, interceptor) == Append(stack, interceptor)

\* one iteration of the before loop
BeforeStep(outcome) ==
  /\ pc = "before"
  /\ context.queue # <<>>
  /\ LET interceptor == Head(context.queue)
         ctx1 == [context EXCEPT !.queue = Tail(context.queue),
                                 !.stack = Push(context.stack, interceptor)]
     IN
     IF interceptor.before
     THEN /\ ran' = Append(ran, [id |-> interceptor.id, direction |-> "before"])
          /\ IF outcome = "ok"
             THEN /\ context' = ApplyBefore(interceptor, ctx1)
                  /\ pc' = IF ctx1.queue = <<>> THEN "after" ELSE "before"
                  /\ UNCHANGED <<eventError, errRet>>
             ELSE /\ context' = ctx1
                  /\ eventError' = [at |-> "before", id |-> interceptor.id]
                  /\ errRet' = [site |-> "before", error |-> eventError']
                  /\ pc' = "err"
     ELSE /\ outcome = "ok"
          /\ context' = ctx1
          /\ pc' = IF ctx1.queue = <<>> THEN "after" ELSE "before"
          /\ UNCHANGED <<ran, eventError, errRet>>
  /\ lastHandle' = NoHandle
  /\ lastFlush' = "none"
  /\ UNCHANGED <<storeVars, fxLog, expected, errorHandlerConfig, coeffectProviders, registrar, state, eventQueue, isProcessing,
                 dispatches, drainOwner, cur, effectsExecuted, stateBefore,
                 tasks, fxIdx, done>>

\* one iteration of the after loop; when the stack is empty execute is called
AfterStep(outcome) ==
  /\ pc = "after"
  /\ context.stack # <<>>
  /\ LET interceptor == Pop(context.stack).top
         ctx1 == [context EXCEPT !.stack = Pop(context.stack).rest]
     IN
     IF interceptor.after
     THEN /\ ran' = Append(ran, [id |-> interceptor.id, direction |-> "after"])
          /\ IF outcome = "ok"
             THEN /\ context' = ApplyAfter(interceptor, ctx1)
                  /\ pc' = IF ctx1.stack = <<>> THEN "db" ELSE "after"
                  /\ UNCHANGED <<eventError, errRet>>
             ELSE /\ context' = ctx1
                  /\ eventError' = [at |-> "after", id |-> interceptor.id]
                  /\ errRet' = [site |-> "after", error |-> eventError']
                  /\ pc' = "err"
     ELSE /\ outcome = "ok"
          /\ context' = ctx1
          /\ pc' = IF ctx1.stack = <<>> THEN "db" ELSE "after"
          /\ UNCHANGED <<ran, eventError, errRet>>
  /\ lastHandle' = NoHandle
  /\ lastFlush' = "none"
  /\ UNCHANGED <<storeVars, fxLog, expected, errorHandlerConfig, coeffectProviders, registrar, state, eventQueue, isProcessing,
                 dispatches, drainOwner, cur, effectsExecuted, stateBefore,
                 tasks, fxIdx, done>>

(* ---------------- effect executor (effects.ts) ---------------- *)
\* registrar.get('effect', kind) found a handler
HasHandler(kind) ==
  /\ kind \in DOMAIN registrar.effect
  /\ registrar.effect[kind] # "none"

\* built-in 'dispatch' effect handler: dispatch(config.event, config.payload)
\* called while handleEvent of event parent is executing its effects
EffectDispatch(acc, eventKey, parent) ==
  LET id == Len(acc.ds) + 1 IN
  [acc EXCEPT !.q = Enqueue(acc.q, [eventKey |-> eventKey, id |-> id]),
              !.ds = Append(acc.ds, [parent |-> parent,
                                     promise |-> IF isProcessing THEN "resolved"
                                                 ELSE "pending"])]

deregisterEventKeep(reg, eventKey) == reg

\* deregisterEvent: registrar.clear('event', eventKey)
deregisterEvent(reg, eventKey) ==
  IF eventKey \in DOMAIN reg.event
  THEN [reg EXCEPT !.event[eventKey] = <<>>]
  ELSE reg

\* built-in 'deregister-event-handler' effect handler: deregisterEvent for
\* every key of the array
RECURSIVE Deregister(_, _)
Deregister(reg, keys) ==
  IF keys = <<>> THEN reg
  ELSE Deregister(deregisterEvent(reg, Head(keys)), Tail(keys))

\* execute, db stage: the db handler is called and awaited first
DbStage ==
  /\ pc = "db"
  /\ IF context.effects.hasDb /\ HasHandler("db")
     THEN IF registrar.effect["db"] = "builtin"
          THEN /\ state' = setState(state, context.effects.db)
               /\ effectsExecuted' = Append(effectsExecuted,
                                      [effectType |-> "db", error |-> NoError])
               /\ pc' = "par"
               /\ UNCHANGED errRet
          ELSE /\ effectsExecuted' = Append(effectsExecuted,
                                      [effectType |-> "db",
                                       error |-> [at |-> "effect", id |-> "db"]])
               /\ errRet' = [site |-> "db", error |-> [at |-> "effect", id |-> "db"]]
               /\ pc' = "err"
               /\ UNCHANGED state
     ELSE /\ pc' = "par"
          /\ UNCHANGED <<state, effectsExecuted, errRet>>
  /\ lastHandle' = NoHandle
  /\ lastFlush' = "none"
  /\ UNCHANGED <<storeVars, fxLog, expected, errorHandlerConfig, coeffectProviders, registrar, eventQueue, isProcessing,
                 dispatches, drainOwner, cur, context, eventError, stateBefore,
                 ran, tasks, fxIdx, done>>

\* the map over effectsWithoutDb: every entry with a config and a handler
\* has its handler called, in entry order, before any of them is awaited;
\* a handler runs up to its first await inside the call: dispatch-n has
\* dispatched its first entry (st "next" while a second entry is to come),
\* deregister-event-handler has finished
RECURSIVE StartParallel(_, _)
StartParallel(entries, acc) ==
  IF entries = <<>> THEN acc
  ELSE LET e == Head(entries) IN
       IF e.config = Null \/ ~HasHandler(e.kind)
       THEN StartParallel(Tail(entries), acc)
       ELSE LET acc1 == IF e.kind = "dispatch"
                        THEN EffectDispatch(acc, e.config, cur.id)
                        ELSE IF e.kind = "dispatch-n"
                        THEN EffectDispatch(acc, Entries(e.config)[1], cur.id)
                        ELSE IF e.kind = "deregister-event-handler"
                        THEN [acc EXCEPT !.reg = Deregister(acc.reg, Entries(e.config))]
                        ELSE acc
                st == IF e.kind = "dispatch-n" /\ Len(Entries(e.config)) > 1
                      THEN "next" ELSE "running"
            IN StartParallel(Tail(entries),
                 [acc1 EXCEPT !.ts = acc1.ts \cup
                    {[ev |-> cur.id, kind |-> e.kind, st |-> st]}])

\* execute, parallel stage: Promise.all over the started handlers
ParStart ==
  /\ pc = "par"
  /\ LET r == StartParallel(context.effects.par,
                            [q |-> eventQueue, ds |-> dispatches, ts |-> tasks,
                             reg |-> registrar])
     IN /\ eventQueue' = r.q
        /\ dispatches' = r.ds
        /\ tasks' = r.ts
        /\ registrar' = r.reg
  /\ pc' = "parwait"
  /\ lastHandle' = NoHandle
  /\ lastFlush' = "none"
  /\ UNCHANGED <<storeVars, fxLog, expected, errorHandlerConfig, coeffectProviders, state, isProcessing, drainOwner,
                 errRet, cur, context, eventError, effectsExecuted, stateBefore,
                 ran, fxIdx, done>>

\* the config of the entry of kind in the effect map being executed
ConfigOf(kind) ==
  LET par == context.effects.par
      i == CHOOSE j \in 1..Len(par) : par[j].kind = kind
  IN par[i].config

\* built-in 'dispatch-n' effect handler resumed after await dispatch(...) of
\* its first entry: the loop dispatches the second entry and awaits again.
\* execute awaits the handler, so the event that declared it is still the
\* one being handled
DispatchNext(t) ==
  /\ Suspended
  /\ t \in tasks
  /\ t.kind = "dispatch-n"
  /\ t.st = "next"
  /\ t.ev = cur.id
  /\ LET r == EffectDispatch([q |-> eventQueue, ds |-> dispatches],
                             Entries(ConfigOf("dispatch-n"))[2], t.ev)
     IN /\ eventQueue' = r.q
        /\ dispatches' = r.ds
  /\ tasks' = (tasks \ {t}) \cup {[t EXCEPT !.st = "running"]}
  /\ lastHandle' = NoHandle
  /\ lastFlush' = "none"
  /\ UNCHANGED <<storeVars, fxLog, expected, errorHandlerConfig, coeffectProviders, registrar, state,
                 isProcessing, pc, drainOwner,
                 errRet, cur, context, eventError, effectsExecuted, stateBefore,
                 ran, fxIdx, done>>

\* a started parallel handler settles; a throw is recorded and passed to
\* errorHandler.handle inside the mapper's catch, where the registered
\* handler's outcome is handler
TaskSettle(t, outcome, handler) ==
  /\ Suspended
  /\ t \in tasks
  /\ outcome = "throw" => t.kind \notin BuiltInKinds
  /\ outcome = "ok" => handler = "ok"
  /\ lastHandle' = NoHandle
  /\ lastFlush' = "none"
  /\ LET err == [at |-> "effect", id |-> t.kind]
         st == IF outcome = "ok" THEN "ok"
               ELSE IF handle(handler) = "throw" THEN "rejected" ELSE "failed"
     IN
     IF t.ev = cur.id
     THEN /\ tasks' = (tasks \ {t}) \cup {[t EXCEPT !.st = st]}
          /\ effectsExecuted' = Append(effectsExecuted,
               [effectType |-> t.kind,
                error |-> IF outcome = "ok" THEN NoError ELSE err])
     ELSE /\ tasks' = tasks \ {t}
          /\ UNCHANGED effectsExecuted
  /\ UNCHANGED <<storeVars, fxLog, expected, errorHandlerConfig, coeffectProviders, registrar, state, eventQueue, isProcessing,
                 dispatches, drainOwner, pc, errRet, cur, context, eventError,
                 stateBefore, ran, fxIdx, done>>

\* the handlers of the event being handled
CurTasks == {t \in tasks : t.ev = cur.id}

AnyFulfilled(ts) == \E t \in ts : t.st \in {"ok", "failed"}

\* Promise.all fulfils once every mapper is fulfilled
AllFulfilled(ts) == \A t \in ts : t.st \in {"ok", "failed"}

\* Promise.all settles: rejected by the first rejected mapper, else
\* fulfilled once every mapper is fulfilled
ParJoin ==
  /\ pc = "parwait"
  /\ \/ /\ \E t \in CurTasks : t.st = "rejected"
        /\ \E t \in CurTasks :
             /\ t.st = "rejected"
             /\ eventError' = [at |-> "effect", id |-> t.kind]
             /\ errRet' = [site |-> "outer", error |-> eventError']
        /\ pc' = "err"
     \/ /\ AllFulfilled(CurTasks)
        /\ pc' = "fx"
        /\ UNCHANGED <<eventError, errRet>>
  /\ lastHandle' = NoHandle
  /\ lastFlush' = "none"
  /\ UNCHANGED <<storeVars, fxLog, expected, errorHandlerConfig, coeffectProviders, registrar, state, eventQueue, isProcessing,
                 dispatches, drainOwner, cur, context, effectsExecuted,
                 stateBefore, ran, tasks, fxIdx, done>>

\* execute, fx stage: the fx handler is called last
FxStart ==
  /\ pc = "fx"
  /\ IF context.effects.hasFx /\ HasHandler("fx")
     THEN /\ fxIdx' = 1
          /\ pc' = "fxloop"
     ELSE /\ pc' = "finish"
          /\ UNCHANGED fxIdx
  /\ lastHandle' = NoHandle
  /\ lastFlush' = "none"
  /\ UNCHANGED <<storeVars, fxLog, expected, errorHandlerConfig, coeffectProviders, registrar, state, eventQueue, isProcessing,
                 dispatches, drainOwner, errRet, cur, context, eventError,
                 effectsExecuted, stateBefore, ran, tasks, done>>

FxEntryReversed(seqOfEffects, i) == seqOfEffects[Len(seqOfEffects) + 1 - i]

\* for (const effectTuple of seqOfEffects): the tuple of iteration i
FxEntry(seqOfEffects, i) == seqOfEffects[i]

\* built-in fx handler: one iteration of the loop over seqOfEffects
FxStep ==
  /\ pc = "fxloop"
  /\ LET fx == context.effects.fx IN
     IF fxIdx > Len(fx)
     THEN /\ effectsExecuted' = Append(effectsExecuted,
                                  [effectType |-> "fx", error |-> NoError])
          /\ pc' = "finish"
          /\ UNCHANGED <<fxIdx, fxLog, eventQueue, dispatches>>
     ELSE LET e == FxEntry(fx, fxIdx) IN
          IF e.kind = Null \/ e.kind = "db" \/ ~HasHandler(e.kind)
          THEN /\ fxIdx' = fxIdx + 1
               /\ UNCHANGED <<pc, fxLog, effectsExecuted, eventQueue, dispatches>>
          ELSE /\ pc' = "fxrun"
               /\ fxLog' = Append(fxLog, [kind |-> e.kind, what |-> "called"])
               /\ LET r == IF e.kind = "dispatch"
                           THEN EffectDispatch([q |-> eventQueue, ds |-> dispatches,
                                                ts |-> {}], e.config, cur.id)
                           ELSE [q |-> eventQueue, ds |-> dispatches, ts |-> {}]
                  IN /\ eventQueue' = r.q
                     /\ dispatches' = r.ds
               /\ UNCHANGED <<fxIdx, effectsExecuted>>
  /\ lastHandle' = NoHandle
  /\ lastFlush' = "none"
  /\ UNCHANGED <<storeVars, expected, errorHandlerConfig, coeffectProviders, registrar, state, isProcessing, drainOwner,
                 errRet, cur, context, eventError, stateBefore, ran, tasks, done>>

\* the handler of the fx entry at fxIdx settles
FxSettle(outcome) ==
  /\ pc = "fxrun"
  /\ LET e == FxEntry(context.effects.fx, fxIdx) IN
     /\ outcome = "throw" => e.kind # "dispatch"
     /\ fxLog' = Append(fxLog, [kind |-> e.kind, what |-> "settled"])
     /\ IF outcome = "ok"
        THEN /\ fxIdx' = fxIdx + 1
             /\ pc' = "fxloop"
             /\ UNCHANGED errRet
        ELSE /\ errRet' = [site |-> "fxentry",
                           error |-> [at |-> "fx", id |-> e.kind]]
             /\ pc' = "err"
             /\ UNCHANGED fxIdx
  /\ lastHandle' = NoHandle
  /\ lastFlush' = "none"
  /\ UNCHANGED <<storeVars, expected, errorHandlerConfig, coeffectProviders, registrar, state, eventQueue, isProcessing,
                 dispatches, drainOwner, cur, context, eventError,
                 effectsExecuted, stateBefore, ran, tasks, done>>

ResumeIntoAfter(site) ==
  CASE site = "before" -> "after"
    [] site \in {"after", "fx", "outer"} -> "finish"
    [] site = "db" -> "par"
    [] site = "fxentry" -> "fxloop"

ResumeIntoEffects(site) ==
  CASE site = "after" -> "db"
    [] site \in {"before", "fx", "outer"} -> "finish"
    [] site = "db" -> "par"
    [] site = "fxentry" -> "fxloop"

\* where control continues when errorHandler.handle returns into the catch
\* block at site: an interceptor error breaks its loop and, eventError being
\* set, skips the after loop and execute; a db error falls through to the
\* parallel stage; an fx entry error continues the loop
Resume(site) ==
  CASE site \in {"before", "after", "fx", "outer"} -> "finish"
    [] site = "db" -> "par"
    [] site = "fxentry" -> "fxloop"

\* errorHandler.handle returns to, or throws out of, the catch block that
\* awaited it; handler is the outcome of the registered error handler
HandleError(handler) ==
  /\ pc = "err"
  /\ lastHandle' = IF handler = "throw"
                   THEN [site |-> errRet.site, handler |-> handler]
                   ELSE NoHandle
  /\ lastFlush' = "none"
  /\ LET site == errRet.site
         outer == [site |-> "outer", error |-> errRet.error]
     IN
     IF handle(handler) = "return"
     THEN /\ errRet' = NoCatch
          /\ pc' = Resume(site)
          /\ fxIdx' = IF site = "fxentry" THEN fxIdx + 1 ELSE fxIdx
          /\ UNCHANGED <<eventError, effectsExecuted, isProcessing, dispatches,
                         drainOwner, done>>
     ELSE CASE site \in {"before", "after", "db", "fx"} ->
                 \* caught by the catch-all of handleEvent
                 /\ eventError' = errRet.error
                 /\ errRet' = outer
                 /\ UNCHANGED <<pc, fxIdx, effectsExecuted, isProcessing,
                                dispatches, drainOwner, done>>
            [] site = "fxentry" ->
                 \* the fx handler rejects into the catch of the fx stage
                 /\ effectsExecuted' = Append(effectsExecuted,
                                         [effectType |-> "fx", error |-> errRet.error])
                 /\ errRet' = [site |-> "fx", error |-> errRet.error]
                 /\ UNCHANGED <<pc, fxIdx, eventError, isProcessing, dispatches,
                                drainOwner, done>>
            [] site = "outer" ->
                 \* handleEvent rejects
                 /\ errRet' = NoCatch
                 /\ pc' = "reject"
                 /\ UNCHANGED <<fxIdx, eventError, effectsExecuted, isProcessing,
                                dispatches, drainOwner, done>>
  /\ UNCHANGED <<storeVars, fxLog, expected, errorHandlerConfig, coeffectProviders, registrar, state, eventQueue, cur, context,
                 stateBefore, ran, tasks>>

\* handleEvent returns or rejects: its locals are dropped; handlers it left
\* running keep running. expected follows the arithmetic of the increment
\* handler: one more for every increment handled without error
Return ==
  /\ cur' = NoEvent
  /\ context' = EmptyContext
  /\ eventError' = NoError
  /\ effectsExecuted' = <<>>
  /\ stateBefore' = 0
  /\ ran' = <<>>
  /\ fxIdx' = 0
  /\ fxLog' = <<>>
  /\ expected' = IF cur.eventKey # "inc" THEN state
                 ELSE IF eventError = NoError
                         /\ effectsExecuted = <<[effectType |-> "db", error |-> NoError]>>
                      THEN expected + 1
                      ELSE expected
  /\ tasks' = {t \in tasks : t.st = "running"}
  /\ done' = done + 1

\* handleEvent emits the trace and returns; processQueue loops
Finish ==
  /\ pc = "finish"
  /\ Return
  /\ pc' = "drain"
  /\ lastHandle' = NoHandle
  /\ lastFlush' = "none"
  /\ UNCHANGED <<storeVars, errorHandlerConfig, coeffectProviders, registrar, state, eventQueue, isProcessing,
                 dispatches, drainOwner, errRet>>

\* handleEvent rejected: processQueue leaves through finally and its
\* promise rejects
Abort ==
  /\ pc = "reject"
  /\ Return
  /\ pc' = "idle"
  /\ isProcessing' = FALSE
  /\ dispatches' = Settle(dispatches, drainOwner, "rejected")
  /\ drainOwner' = 0
  /\ lastHandle' = NoHandle
  /\ lastFlush' = IF drainOwner = 0 THEN "rejected" ELSE "none"
  /\ UNCHANGED <<storeVars, errorHandlerConfig, coeffectProviders, registrar, state, eventQueue, errRet>>

(* ---------------- specification ---------------- *)
Outcomes == {"ok", "throw"}

\* effect kinds whose handlers the parallel stage can start
ParallelKinds == {k \in DOMAIN InitRegistrar("builtin").effect :
                    k \notin {"db", "fx"} /\ InitRegistrar("builtin").effect[k] # "none"}

\* largest id a dispatch call can get: every external call may be a many,
\* whose effect map dispatches an fxev, which dispatches once more, and an inc
MaxIds == 4 * MaxDispatch

\* steps of callers outside the engine
Environment ==
  \/ \E k \in EventKeys : Dispatch(k)
  \/ Flush

\* steps of the engine and of the handlers it awaits
Engine ==
  \/ DrainEnd
  \/ \E c \in Outcomes : StartEvent(c)
  \/ \E o \in Outcomes : BeforeStep(o)
  \/ \E o \in Outcomes : AfterStep(o)
  \/ DbStage
  \/ ParStart
  \/ \E ev \in 1..MaxIds, k \in ParallelKinds, o \in Outcomes, h \in Outcomes :
       TaskSettle([ev |-> ev, kind |-> k, st |-> "running"], o, h)
  \/ ParJoin
  \/ FxStart
  \/ FxStep
  \/ \E o \in Outcomes : FxSettle(o)
  \/ \E h \in Outcomes : HandleError(h)
  \/ Finish
  \/ Abort

Next == Environment \/ Engine

Spec == Init /\ [][Next]_vars

\* every awaited step eventually runs: interceptors, handlers and the error
\* handler terminate
FairSpec == Spec /\ WF_vars(Engine)

\* a store with the default error handler configuration and a coeffect
\* provider that may throw
ProviderInit ==
  /\ Created
  /\ coeffectProviders = "throws"
  /\ ~errorHandlerConfig.rethrow
  /\ registrar = InitRegistrar("builtin")

ProviderSpec == ProviderInit /\ [][Next]_vars

\* the store with callers that call flush at any time and watch its promise
FlushNext == Next \/ FlushBusy

FlushSpec == Init /\ [][FlushNext]_vars

\* a store with the events many and dereg registered
ManyInit ==
  /\ Fresh
  /\ registrar = ManyRegistrar
  /\ state = 0
  /\ coeffectProviders = "returns"

\* the engine with the resumption of the dispatch-n handler
ManyEngine ==
  \/ Engine
  \/ \E ev \in 1..MaxIds :
       DispatchNext([ev |-> ev, kind |-> "dispatch-n", st |-> "next"])

\* callers dispatch many and call flush
DispatchNNext ==
  \/ Dispatch("many")
  \/ Flush
  \/ ManyEngine

DispatchNSpec == ManyInit /\ [][DispatchNNext]_vars

\* callers dispatch dereg and inc and call flush
DeregisterNext ==
  \/ \E k \in {"dereg", "inc"} : Dispatch(k)
  \/ Flush
  \/ Engine

DeregisterSpec == ManyInit /\ [][DeregisterNext]_vars

\* a store whose state is an object and whose events use path interceptors
PathInit ==
  /\ Fresh
  /\ registrar = PathRegistrar
  /\ state = PathState
  /\ coeffectProviders = "returns"

\* callers dispatch pth and pth2 and call flush; the effect maps hold a db
\* effect only
PathNext ==
  \/ \E k \in {"pth", "pth2"} : Dispatch(k)
  \/ Flush
  \/ DrainEnd
  \/ \E c \in Outcomes : StartEvent(c)
  \/ \E o \in Outcomes : BeforeStep(o)
  \/ \E o \in Outcomes : AfterStep(o)
  \/ DbStage
  \/ ParStart
  \/ ParJoin
  \/ FxStart
  \/ \E h \in Outcomes : HandleError(h)
  \/ Finish
  \/ Abort

PathSpec == PathInit /\ [][PathNext]_vars

(* ---------------- subscription registry (subscription.ts) ---------------- *)
\* subscriptions.get(key): "count" is a leaf (compute), "twice" a derived
\* subscription (deps, combine)
HasConfig(key) == key \in {"count", "twice"}

\* the compute function of "count": state => state.count
compute(s, params) == Content(s)

\* the combine function of "twice": deps => 2 * deps[0]
combine(depResults, params) ==
  IF depResults[1] \in {Undefined, NaN} THEN NaN
  ELSE IF depResults[1] = NullResult THEN 0
  ELSE 2 * depResults[1]

\* getSubscription: the object stored under the cache key, created and
\* stored when there is none
getSubscription(reg, key, params) ==
  LET cacheKey == getCacheKey(key, params) IN
  IF reg.subscriptionCache[cacheKey] # 0
  THEN [reg |-> reg, subscription |-> reg.subscriptionCache[cacheKey]]
  ELSE LET subscription == Len(reg.objects) + 1 IN
       [reg |-> [reg EXCEPT !.objects = Append(@, [key |-> key, params |-> params]),
                            !.subscriptionCache[cacheKey] = subscription,
                            !.resultCache = Append(@, NoCache),
                            !.refCounts = Append(@, 0),
                            !.listeners = Append(@, {})],
        subscription |-> subscription]

CacheNeverValid(cached, s) == FALSE

\* cached && cached.state === state
CacheValid(cached, s) == cached.has /\ cached.state = s

\* cached?.result ?? undefined
Fallback(cached) ==
  IF cached.has /\ cached.result \notin {NullResult, Undefined}
  THEN cached.result
  ELSE Undefined

RECURSIVE query(_, _, _, _, _)
\* query: the cached result when the cache entry holds the same state
\* reference, else a computation whose result is cached; outcome says
\* whether compute throws. computed lists the compute/combine invocations,
\* errors the errors reported (to onError, or to the console without it)
query(reg, s, key, params, outcome) ==
  IF ~HasConfig(key)
  THEN [reg |-> reg, result |-> Undefined, computed |-> <<>>,
        errors |-> <<[key |-> key, error |-> "not registered"]>>]
  ELSE LET g == getSubscription(reg, key, params)
           subscription == g.subscription
           cached == g.reg.resultCache[subscription]
       IN
       IF CacheValid(cached, s)
       THEN [reg |-> g.reg, result |-> cached.result, computed |-> <<>>,
             errors |-> <<>>]
       ELSE IF key = "count"
       THEN IF outcome = "throw"
            THEN [reg |-> g.reg,
                  result |-> Fallback(cached),
                  computed |-> <<key>>,
                  errors |-> <<[key |-> key, error |-> "compute"]>>]
            ELSE [reg |-> [g.reg EXCEPT !.resultCache[subscription] =
                             [has |-> TRUE, state |-> s, result |-> compute(s, params)]],
                  result |-> compute(s, params),
                  computed |-> <<key>>,
                  errors |-> <<>>]
       ELSE LET dep == query(g.reg, s, "count", <<>>, outcome)
                result == combine(<<dep.result>>, params)
            IN [reg |-> [dep.reg EXCEPT !.resultCache[subscription] =
                           [has |-> TRUE, state |-> s, result |-> result]],
                result |-> result,
                computed |-> dep.computed \o <<key>>,
                errors |-> dep.errors]

\* subscribe up to the return of the closure: reference count, first
\* result, listener
subscribe(reg, s, key, params, callback, outcome) ==
  LET g == getSubscription(reg, key, params)
      subscription == g.subscription
      counted == [g.reg EXCEPT !.refCounts[subscription] = @ + 1]
      q == query(counted, s, key, params, outcome)
  IN [reg |-> [q.reg EXCEPT !.listeners[subscription] = @ \cup {callback}],
      result |-> q.result,
      computed |-> q.computed,
      errors |-> q.errors,
      closure |-> [subscription |-> subscription, callback |-> callback,
                   key |-> key, params |-> params]]

unsubscribeKeep(reg, closure) ==
  LET subscription == closure.subscription
      count == reg.refCounts[subscription]
  IN [reg EXCEPT !.listeners[subscription] = @ \ {closure.callback},
                 !.refCounts[subscription] = IF count - 1 > 0 THEN count - 1 ELSE 0]

\* the closure subscribe returned: it drops its callback from the listeners
\* of its object, lowers that object's count and, when both are exhausted,
\* deletes what the lookup table holds under its cache key
unsubscribe(reg, closure) ==
  LET subscription == closure.subscription
      listeners == reg.listeners[subscription] \ {closure.callback}
      count == reg.refCounts[subscription]
      newCount == IF count - 1 > 0 THEN count - 1 ELSE 0
      reg1 == [reg EXCEPT !.listeners[subscription] = listeners,
                          !.refCounts[subscription] = newCount]
  IN IF newCount <= 0 /\ listeners = {}
     THEN [reg1 EXCEPT !.subscriptionCache[getCacheKey(closure.key, closure.params)] = 0]
     ELSE reg1

\* JSON.stringify of a result: NaN and null serialize to null, undefined to
\* nothing
stringifyResult(r) ==
  IF r \in {NaN, NullResult} THEN "null"
  ELSE IF r = Undefined THEN "undefined"
  ELSE ToString(r)

\* deepEqual: equality of the JSON serializations
deepEqual(a, b) == stringifyResult(a) = stringifyResult(b)

RECURSIVE notifyFrom(_, _, _, _)
\* the loop of notifyListeners from the i-th entry of the lookup table on
\* (entries are visited in insertion order, which is creation order);
\* called lists the results passed to listeners
notifyFrom(acc, i, newState, outcome) ==
  IF i > Len(acc.reg.objects) THEN acc
  ELSE LET subscription == acc.reg.objects[i]
           present == acc.reg.subscriptionCache[
                        getCacheKey(subscription.key, subscription.params)] = i
           listeners == acc.reg.listeners[i]
       IN
       IF ~present \/ listeners = {}
       THEN notifyFrom(acc, i + 1, newState, outcome)
       ELSE LET oldCached == acc.reg.resultCache[i]
                q == query(acc.reg, newState, subscription.key,
                           subscription.params, outcome)
                changed == ~oldCached.has \/ ~deepEqual(oldCached.result, q.result)
            IN notifyFrom(
                 [reg |-> q.reg,
                  computed |-> acc.computed \o q.computed,
                  errors |-> acc.errors \o q.errors,
                  called |-> IF changed
                             THEN Append(acc.called, [subscription |-> i,
                                                      listeners |-> listeners,
                                                      result |-> q.result])
                             ELSE acc.called],
                 i + 1, newState, outcome)

\* notifyListeners(newState)
notifyListeners(reg, newState, outcome) ==
  notifyFrom([reg |-> reg, computed |-> <<>>, errors |-> <<>>, called |-> <<>>],
             1, newState, outcome)

(* ---------------- state manager (createStateManager) ---------------- *)
ObjectIsNever(a, b) == FALSE

\* Object.is on state references
ObjectIs(a, b) == a = b

\* scheduleNotification: a frame is requested unless one is pending; the
\* handle requestAnimationFrame returns is not 0
scheduleNotification(id) == IF id # 0 THEN id ELSE 1

\* stateManager.setState(newState)
SetState(newState) ==
  /\ ObjectIs(state, newState) \/ Len(stateChanges) < MaxPending
  /\ IF ~ObjectIs(state, newState)
     THEN /\ state' = newState
          /\ stateChanges' = Append(stateChanges, newState)
          /\ rafId' = scheduleNotification(rafId)
     ELSE UNCHANGED <<state, stateChanges, rafId>>
  /\ lastSet' = [called |-> TRUE, arg |-> newState, old |-> state]
  /\ UNCHANGED <<engineVars, notified, registry, closures, lastQuery, lastCall,
                 delivered>>

\* stateManager.scheduleNotification() called directly
ScheduleNotification ==
  /\ rafId' = scheduleNotification(rafId)
  /\ lastSet' = NoSet
  /\ UNCHANGED <<state, engineVars, stateChanges, notified, registry, closures,
                 lastQuery, lastCall, delivered>>

\* listeners.forEach(callback => callback(newResult)) and callback(result)
\* in subscribe: the results the listeners of each object in objects were
\* called with last, after the calls listed in called
Deliver(old, objects, called) ==
  [i \in 1..Len(objects) |->
     IF \E j \in 1..Len(called) : called[j].subscription = i
     THEN LET j == CHOOSE j \in 1..Len(called) : called[j].subscription = i
          IN [has |-> TRUE, result |-> called[j].result]
     ELSE IF i <= Len(old) THEN old[i] ELSE NoDelivery]

\* what a call of notifyListeners(newState) leaves to be observed: onError
\* is undefined there, so errors go to the console
NotifyCall(n, newState, outcome) ==
  [NoCall EXCEPT !.op = "notifyListeners", !.state = newState,
                 !.computed = n.computed, !.threw = outcome = "throw",
                 !.logged = n.errors, !.called = n.called]

\* the callback given to requestAnimationFrame runs; cb is the outcome of
\* the store's onStateChange callback, outcome that of compute
RafFire(cb, outcome) ==
  /\ rafId # 0
  /\ rafId' = 0
  /\ stateChanges' = <<>>
  /\ IF stateChanges = <<>>
     THEN /\ notified' = <<>>
          /\ UNCHANGED <<registry, lastCall, delivered>>
     ELSE LET latestState == stateChanges[Len(stateChanges)]
              n == notifyListeners(registry, latestState, outcome)
          IN IF cb = "throw"
             THEN /\ notified' = <<[callback |-> "onStateChange", value |-> latestState]>>
                  /\ UNCHANGED <<registry, lastCall, delivered>>
             ELSE /\ Len(n.reg.objects) <= MaxObjects
                  /\ notified' = <<[callback |-> "onStateChange", value |-> latestState],
                                   [callback |-> "onStateChangeForSubscriptions",
                                    value |-> latestState]>>
                  /\ registry' = n.reg
                  /\ lastCall' = NotifyCall(n, latestState, outcome)
                  /\ delivered' = Deliver(delivered, n.reg.objects, n.called)
  /\ lastSet' = NoSet
  /\ UNCHANGED <<state, engineVars, closures, lastQuery>>

(* ---------------- state manager specification ---------------- *)
\* the state manager on its own: setState is called as the db effect calls
\* it, and the animation frame fires between calls
NotifyInit ==
  /\ Init
  /\ ~errorHandlerConfig.rethrow
  /\ registrar = InitRegistrar("builtin")

NotifyNext ==
  \/ \E s \in StateRefs : SetState(s)
  \/ ScheduleNotification
  \/ \E cb \in Outcomes, o \in Outcomes : RafFire(cb, o)

NotifySpec == NotifyInit /\ [][NotifyNext]_vars

(* ---------------- calls of the subscription registry ---------------- *)
\* compute is invoked by a call that made the invocations computed
Computes(computed) == \E i \in 1..Len(computed) : computed[i] = "count"

\* registry.getSubscription(key, params)
GetSubscription(key, params) ==
  LET g == getSubscription(registry, key, params) IN
  /\ Len(g.reg.objects) <= MaxObjects
  /\ registry' = g.reg
  /\ lastQuery' = NoQuery
  /\ lastCall' = NoCall
  /\ delivered' = Deliver(delivered, g.reg.objects, <<>>)
  /\ UNCHANGED <<state, engineVars, stateChanges, rafId, notified, lastSet,
                 closures>>

\* subscriptionManager.query: registry.query(s, key, params, onError), where
\* onError passes the error to errorHandler.handle; an outcome is chosen
\* only for a call that invokes compute
Query(s, key, params, outcome) ==
  LET q == query(registry, s, key, params, outcome) IN
  /\ Len(q.reg.objects) <= MaxObjects
  /\ outcome = "throw" => Computes(q.computed)
  /\ registry' = q.reg
  /\ lastQuery' = [state |-> s, key |-> key, params |-> params,
                   result |-> q.result, computed |-> q.computed,
                   threw |-> outcome = "throw", handled |-> q.errors]
  /\ lastCall' = NoCall
  /\ delivered' = Deliver(delivered, q.reg.objects, <<>>)
  /\ UNCHANGED <<state, engineVars, stateChanges, rafId, notified, lastSet,
                 closures>>

\* subscriptionManager.subscribe: registry.subscribe(s, key, params,
\* callback, onError) called by subscriber a
Subscribe(a, s, key, params, callback, outcome) ==
  LET r == subscribe(registry, s, key, params, callback, outcome) IN
  /\ closures[a] = NoClosure
  /\ Len(r.reg.objects) <= MaxObjects
  /\ outcome = "throw" => Computes(r.computed)
  /\ registry' = r.reg
  /\ closures' = [closures EXCEPT ![a] = r.closure]
  /\ lastQuery' = NoQuery
  /\ lastCall' = [NoCall EXCEPT !.op = "subscribe", !.who = a, !.state = s,
                                !.result = r.result, !.computed = r.computed,
                                !.threw = outcome = "throw",
                                !.handled = r.errors]
  /\ delivered' = Deliver(delivered, r.reg.objects,
                          <<[subscription |-> r.closure.subscription,
                             result |-> r.result]>>)
  /\ UNCHANGED <<state, engineVars, stateChanges, rafId, notified, lastSet>>

\* subscriber a invokes the closure subscribe returned (again, possibly)
Unsubscribe(a) ==
  /\ closures[a] # NoClosure
  /\ registry' = unsubscribe(registry, closures[a])
  /\ lastQuery' = NoQuery
  /\ lastCall' = [NoCall EXCEPT !.op = "unsubscribe", !.who = a]
  /\ UNCHANGED <<state, engineVars, stateChanges, rafId, notified, lastSet,
                 closures, delivered>>

\* registry.notifyListeners(newState)
NotifyListeners(newState, outcome) ==
  LET n == notifyListeners(registry, newState, outcome) IN
  /\ Len(n.reg.objects) <= MaxObjects
  /\ outcome = "throw" => Computes(n.computed)
  /\ registry' = n.reg
  /\ lastQuery' = NoQuery
  /\ lastCall' = NotifyCall(n, newState, outcome)
  /\ delivered' = Deliver(delivered, n.reg.objects, n.called)
  /\ UNCHANGED <<state, engineVars, stateChanges, rafId, notified, lastSet,
                 closures>>

(* ---------------- registry specification ---------------- *)
\* a SubscriptionRegistry called by its users (the subscription manager
\* passes stateManager.getState() as the state argument)
RegistryInit ==
  /\ Init
  /\ ~errorHandlerConfig.rethrow
  /\ registrar = InitRegistrar("builtin")

RegistryNext ==
  \/ \E k \in SubKeys, p \in Params : GetSubscription(k, p)
  \/ \E s \in StateRefs, k \in SubKeys, p \in Params, o \in Outcomes :
       Query(s, k, p, o)
  \/ \E a \in Subscribers, s \in StateRefs, k \in SubKeys, p \in Params,
        c \in Callbacks, o \in Outcomes : Subscribe(a, s, k, p, c, o)
  \/ \E a \in Subscribers : Unsubscribe(a)
  \/ \E s \in StateRefs, o \in Outcomes : NotifyListeners(s, o)

RegistrySpec == RegistryInit /\ [][RegistryNext]_vars

(* ---------------- properties ---------------- *)
\* 1 while handleEvent is running for a registered event
InHandling == IF cur = NoEvent THEN 0 ELSE 1

Parent(id) == dispatches[id].parent

\* C1: events are handled in the order dispatch enqueued them. Ids are given
\* in enqueue order, so: the event being handled is the first one not yet
\* returned, the queue holds exactly the following ids in ascending order,
\* an event dispatched by an effect sits behind everything queued before it,
\* and it is handled only after handleEvent of its parent has returned.
C1_EnqueueOrder ==
  /\ cur # NoEvent => cur.id = done + 1
  /\ \A i \in 1..Len(eventQueue) : eventQueue[i].id = done + InHandling + i
  /\ done + InHandling + Len(eventQueue) = Len(dispatches)
  /\ cur # NoEvent /\ Parent(cur.id) # 0 => Parent(cur.id) <= done

\* an effect-dispatched event is being handled, after an event that was
\* queued between its parent and itself
C1_Witness ==
  /\ cur # NoEvent
  /\ Parent(cur.id) # 0
  /\ cur.id > Parent(cur.id) + 1
  /\ pc = "after"

\* C2: at most one event is in flight: while an event is being handled no
\* effect handler started for another event is still running.
C2_OneInFlight ==
  cur # NoEvent => \A t \in tasks : t.st = "running" => t.ev = cur.id

\* C3: a resolved dispatch promise means the event that call enqueued has
\* been fully processed.
C3_ResolvedMeansProcessed ==
  \A i \in 1..Len(dispatches) : dispatches[i].promise = "resolved" => i <= done

\* C4: every event dispatched from inside an effect is eventually dequeued
\* and handled.
C4_EffectDispatchHandled ==
  \A i \in 1..MaxIds :
    [](i <= Len(dispatches) /\ Parent(i) # 0 => <>(done >= i))

RECURSIVE Reverse(_)
Reverse(seq) == IF seq = <<>> THEN <<>> ELSE Reverse(Tail(seq)) \o <<Head(seq)>>

RECURSIVE Calls(_, _)
\* the interceptors of chain that define direction, as invocation records
Calls(chain, direction) ==
  IF chain = <<>> THEN <<>>
  ELSE LET i == Head(chain)
           defined == IF direction = "before" THEN i.before ELSE i.after
       IN (IF defined THEN <<[id |-> i.id, direction |-> direction]>> ELSE <<>>)
          \o Calls(Tail(chain), direction)

\* onion order: befores outside-in, then afters inside-out
RunOrder(chain) == Calls(chain, "before") \o Calls(Reverse(chain), "after")

IsPrefix(a, b) == Len(a) <= Len(b) /\ a = SubSeq(b, 1, Len(a))

\* the chain has been run to its end without error
ChainComplete ==
  /\ cur # NoEvent
  /\ eventError.at \notin {"before", "after"}
  /\ pc \notin {"before", "after", "err"} \/ (pc = "err" /\ errRet.site \notin {"before", "after"})

\* C5: the before functions run in chain order with the handler last, then
\* the after functions in exact reverse order; every before precedes every
\* after.
C5_OnionOrder ==
  cur # NoEvent =>
    /\ IsPrefix(ran, RunOrder(registrar.event[cur.eventKey]))
    /\ ChainComplete => ran = RunOrder(registrar.event[cur.eventKey])

\* the chain [i1, i2, db-handler] has run completely
C5_Witness ==
  /\ pc = "db"
  /\ cur.eventKey = "inc"
  /\ Len(ran) = 5
  /\ ran[3].id = "db-handler"
  /\ ran[4].id = "i2"

\* C6: when a before function throws, it is the last function of the chain
\* that runs (no later before, no after), no effect is executed and the
\* state equals the state before the event.
C6_BeforeThrowStops ==
  eventError.at = "before" =>
    /\ ran # <<>>
    /\ ran[Len(ran)] = [id |-> eventError.id, direction |-> "before"]
    /\ \A i \in 1..Len(ran) : ran[i].direction = "before"
    /\ effectsExecuted = <<>>
    /\ {t \in tasks : t.ev = cur.id} = {}
    /\ \A i \in 1..Len(dispatches) : Parent(i) # cur.id
    /\ state = stateBefore
    /\ pc \in {"err", "finish", "reject"}

\* before of i1 threw and handleEvent is about to return: the handler of
\* the event never ran
C6_Witness ==
  /\ pc = "finish"
  /\ eventError = [at |-> "before", id |-> "i1"]
  /\ Len(ran) = 1
  /\ Len(context.queue) = 2

\* C7: when an after function throws, no further after function runs and no
\* effect of the event is executed, so the state is unchanged although the
\* context holds the handler's db effect.
C7_AfterThrowStops ==
  eventError.at = "after" =>
    /\ ran # <<>>
    /\ ran[Len(ran)] = [id |-> eventError.id, direction |-> "after"]
    /\ effectsExecuted = <<>>
    /\ {t \in tasks : t.ev = cur.id} = {}
    /\ \A i \in 1..Len(dispatches) : Parent(i) # cur.id
    /\ state = stateBefore
    /\ pc \in {"err", "finish", "reject"}

\* after of i2 threw with i1 not yet unwound and a db effect different from
\* the state in the context
C7_Witness ==
  /\ pc = "finish"
  /\ eventError = [at |-> "after", id |-> "i2"]
  /\ context.stack = <<i1>>
  /\ context.effects.hasDb
  /\ context.effects.db # state

\* C8: an interceptor error affects its event only: while other events wait
\* in the queue the drain goes on.
C8_ErrorKeepsDraining ==
  [][eventError.at \in {"before", "after"} /\ eventQueue # <<>> => isProcessing']_vars

\* the db handler of the event being handled has settled
DbSettled ==
  context.effects.hasDb /\ HasHandler("db") =>
    /\ effectsExecuted # <<>>
    /\ effectsExecuted[1].effectType = "db"
    /\ ~(pc = "err" /\ errRet.site = "db")

\* the fx handler of the event being handled has been called
FxStarted ==
  \/ pc \in {"fxloop", "fxrun"}
  \/ pc = "err" /\ errRet.site \in {"fxentry", "fx"}
  \/ \E i \in 1..Len(effectsExecuted) : effectsExecuted[i].effectType = "fx"

\* C9: the db handler has settled before any parallel-stage handler is
\* started, and every parallel-stage handler has settled before the fx
\* handler is started.
C9_StageOrder ==
  /\ CurTasks # {} => DbSettled
  /\ FxStarted => \A t \in CurTasks : t.st # "running"
  /\ FxStarted => DbSettled

\* the fx handler is running an entry after a db effect and the parallel
\* handlers a and b, one of which failed
C9_Witness ==
  /\ pc = "fxrun"
  /\ effectsExecuted[1].effectType = "db"
  /\ \E t \in CurTasks : t.st = "failed"
  /\ \E t \in CurTasks : t.st = "ok" /\ t.kind # "dispatch"

\* C10: execute leaves the parallel stage only when every handler it started
\* has settled.
C10_StageWaits ==
  cur # NoEvent /\ pc # "parwait" => \A t \in CurTasks : t.st # "running"

\* C11: when the db effect handler fails, the failure is caught and passed
\* to the error handler, and once the error handler is done execution goes
\* on with the parallel stage (and from there the fx stage): the step that
\* leaves the db stage's catch block enters the parallel stage.
C11_DbFailureContinues ==
  [][pc = "err" /\ errRet.site = "db" /\ errRet' # errRet => pc' = "par"]_vars

RECURSIVE FxOrder(_)
\* the calls and settlements an fx list gives rise to when its entries are
\* run one after the other: entries that are null, of kind db or without a
\* handler call nothing
FxOrder(seqOfEffects) ==
  IF seqOfEffects = <<>> THEN <<>>
  ELSE LET e == Head(seqOfEffects) IN
       (IF e.kind = Null \/ e.kind = "db" \/ ~HasHandler(e.kind)
        THEN <<>>
        ELSE <<[kind |-> e.kind, what |-> "called"],
               [kind |-> e.kind, what |-> "settled"]>>)
       \o FxOrder(Tail(seqOfEffects))

\* C12: the entries of an fx list are executed strictly in list order, and
\* the handler of each entry has settled before the handler of the next
\* entry is called: what the fx handler has done so far is always an
\* initial part of call-settle, call-settle, ... in list order.
C12_FxInOrder ==
  /\ IsPrefix(fxLog, FxOrder(context.effects.fx))
  /\ pc = "fxrun" <=> Len(fxLog) % 2 = 1

\* both runnable entries of the fx list have run, the second after the
\* first had settled
C12_Witness ==
  /\ pc = "fxloop"
  /\ Len(fxLog) = 4
  /\ fxLog[2] = [kind |-> "a", what |-> "settled"]
  /\ fxLog[3] = [kind |-> "b", what |-> "called"]

\* the fx handler of the event being handled has returned or failed
FxOver == \E i \in 1..Len(effectsExecuted) : effectsExecuted[i].effectType = "fx"

\* C13: a null entry, an entry of kind db, an entry without a handler and an
\* entry whose handler throws each leave the later entries to run in order:
\* when the fx handler is over, every runnable entry of the list has been
\* called and has settled; and an fx entry of kind db does not change the
\* state, which is still what the db stage left.
C13_FxEntriesAllRun ==
  FxOver =>
    /\ fxLog = FxOrder(context.effects.fx)
    /\ state = IF registrar.effect["db"] = "builtin"
               THEN context.effects.db ELSE stateBefore

\* C14 as stated: the state the handler returned is visible only after the
\* event's effect execution has completed; at every earlier point of the
\* event, also while its other effects are executing, getState() returns
\* the prior value.
C14_StateOnlyAfterEffects ==
  cur # NoEvent /\ pc \notin {"finish", "reject"} => state = stateBefore

\* the built-in db handler has run for the event being handled
DbApplied ==
  /\ effectsExecuted # <<>>
  /\ effectsExecuted[1] = [effectType |-> "db", error |-> NoError]

\* C14 amended: getState() returns the prior value throughout the
\* interceptor chain and up to the db stage, and returns the state of the
\* event's db effect from the db stage on, that is before any parallel
\* effect or fx entry of the event starts and while they execute.
C14_StateFromDbStage ==
  cur # NoEvent =>
    /\ state = IF DbApplied THEN context.effects.db ELSE stateBefore
    /\ pc \in {"before", "after", "db"} => ~DbApplied
    /\ pc \in {"par", "parwait", "fx", "fxloop", "fxrun"}
         /\ registrar.effect["db"] = "builtin" /\ context.effects.hasDb => DbApplied

\* a parallel effect of the event is still running and getState() already
\* returns the new state
C14_Witness ==
  /\ pc = "parwait"
  /\ \E t \in CurTasks : t.st = "running"
  /\ state = context.effects.db
  /\ state # stateBefore

\* C15: no update is lost. The increment handler computes count + 1 from
\* its db coeffect; between events the count is the initial count plus one
\* for every increment handled so far, however the dispatch calls were
\* spaced; the db coeffect of each increment handler is the state the
\* previously handled event left, and its db effect makes the count one more.
C15_NoLostUpdate ==
  /\ cur = NoEvent => state = expected
  /\ cur # NoEvent => stateBefore = expected
  /\ cur # NoEvent /\ cur.eventKey = "inc" =>
       /\ context.coeffects.db = expected
       /\ DbApplied => state = expected + 1

\* the second of two increments dispatched back to back (the drain the
\* first call started is still running) has made the count 2
C15_Witness ==
  /\ pc = "par"
  /\ cur = [eventKey |-> "inc", id |-> 2]
  /\ Parent(2) = 0
  /\ drainOwner = 1
  /\ DbApplied
  /\ state = 2

\* C16: the value getState() returns changes only when the built-in db
\* handler runs in the db stage of an event whose effect map has a db
\* effect, and it becomes that effect's value. No other step changes it:
\* not an interceptor (i3 replaces coeffects.db), not a parallel effect,
\* not an fx entry (of kind db or other), not the dispatch of an
\* unregistered event.
C16_OnlyDbStageWrites ==
  [][state' # state =>
       /\ pc = "db"
       /\ pc' = "par"
       /\ context.effects.hasDb
       /\ registrar.effect["db"] = "builtin"
       /\ state' = context.effects.db]_vars

\* an event whose interceptor replaced coeffects.db has run its parallel
\* effects and its whole fx list, after an earlier event that left the
\* state untouched: the state is the db effect's value, not the replaced
\* coeffect
C16_Witness ==
  /\ pc = "finish"
  /\ cur.eventKey = "fxev"
  /\ done = 1
  /\ stateBefore = 0
  /\ context.coeffects.db = Focused
  /\ Len(fxLog) = 4
  /\ \E t \in CurTasks : t.st = "ok"
  /\ state = context.effects.db

\* C17: a setState call whose argument is the current state reference
\* changes neither the state nor the pending changes nor the scheduled
\* notification; a call with another reference replaces the state, queues
\* the value and leaves a notification scheduled
C17_SetStateIdentity ==
  [][lastSet'.called /\ lastSet' # lastSet =>
       /\ lastSet'.old = state
       /\ IF lastSet'.arg = state
          THEN UNCHANGED <<state, stateChanges, rafId>>
          ELSE /\ state' = lastSet'.arg
               /\ stateChanges' = Append(stateChanges, lastSet'.arg)
               /\ rafId' # 0]_vars

\* a call with the current reference was made while a change of an earlier
\* call was pending, and the pending change is still the only one
C17_Witness ==
  /\ lastSet.called
  /\ lastSet.arg = lastSet.old
  /\ state = lastSet.arg
  /\ stateChanges = <<state>>
  /\ rafId # 0

\* C18: while changes are pending a notification is scheduled, and the
\* animation-frame callback that finds pending changes invokes the external
\* callback and the subscription callback once each with the latest value,
\* which is the current state, and leaves no change pending
C18_SingleDelivery ==
  [][rafId # 0 /\ rafId' = 0 /\ stateChanges # <<>> =>
       /\ stateChanges[Len(stateChanges)] = state
       /\ notified' = <<[callback |-> "onStateChange", value |-> state],
                        [callback |-> "onStateChangeForSubscriptions",
                         value |-> state]>>
       /\ stateChanges' = <<>>]_vars

\* C19 as stated: a query repeated with the same state reference, key and
\* params right after the first returns the first's result and invokes
\* neither compute nor combine
C19_SecondQuerySame ==
  [][/\ lastQuery.key # "none"
     /\ lastQuery'.key = lastQuery.key
     /\ lastQuery'.params = lastQuery.params
     /\ lastQuery'.state = lastQuery.state
     => /\ lastQuery'.result = lastQuery.result
        /\ lastQuery'.computed = <<>>]_vars

\* the cache entry of the instance stored for (key, params), if any
CachedFor(key, params) ==
  LET i == registry.subscriptionCache[getCacheKey(key, params)] IN
  IF i = 0 THEN NoCache ELSE registry.resultCache[i]

\* C19: a query repeated with the same state reference, key and params right
\* after a first one whose computation did not throw returns the first's
\* result without invoking compute or combine; more generally a query of a
\* registered key whose stored instance holds a cache entry for the same
\* state reference returns that entry's result without any invocation
C19_SecondQueryCached ==
  [][/\ (/\ lastQuery.key # "none"
         /\ ~lastQuery.threw
         /\ lastQuery'.key = lastQuery.key
         /\ lastQuery'.params = lastQuery.params
         /\ lastQuery'.state = lastQuery.state
         => /\ lastQuery'.result = lastQuery.result
            /\ lastQuery'.computed = <<>>)
     /\ (/\ HasConfig(lastQuery'.key)
         /\ CachedFor(lastQuery'.key, lastQuery'.params).has
         /\ CachedFor(lastQuery'.key, lastQuery'.params).state = lastQuery'.state
         => /\ lastQuery'.result
                 = CachedFor(lastQuery'.key, lastQuery'.params).result
            /\ lastQuery'.computed = <<>>)]_vars

\* the derived subscription was queried for a state it was already computed
\* for, and the query returned the combined value without an invocation
C19_Witness ==
  /\ lastQuery.key = "twice"
  /\ lastQuery.state = 2
  /\ lastQuery.computed = <<>>
  /\ lastQuery.result = 2
  /\ CachedFor("twice", lastQuery.params).state = 2

\* C20: every subscription instance that is referenced (its reference count
\* is positive or it has a listener) is the instance the lookup table holds
\* for its (key, params), so getSubscription, query and subscribe called
\* with that (key, params) resolve to it and not to another instance
C20_OneLiveInstance ==
  \A i \in 1..Len(registry.objects) :
    registry.refCounts[i] > 0 \/ registry.listeners[i] # {}
    => registry.subscriptionCache[getCacheKey(registry.objects[i].key,
                                              registry.objects[i].params)] = i

\* the instance a subscriber's closure was made for, and its cache key
InstanceOf(a) == closures[a].subscription

KeyOf(a) == getCacheKey(closures[a].key, closures[a].params)

\* the result of a computation from scratch for state s: undefined for a
\* key without config or when compute throws, compute's value for a
\* directly computed key, combine applied to what the dependency yields for
\* s for a derived one
FreshResult(key, s, params, threw) ==
  IF ~HasConfig(key) THEN Undefined
  ELSE IF key = "count"
  THEN IF threw THEN Undefined ELSE compute(s, params)
  ELSE combine(<<query(registry, s, "count", <<>>,
                       IF threw THEN "throw" ELSE "ok").result>>, params)

\* C21: when a subscriber whose subscribe call made the only reference to
\* its instance invokes the returned closure as the next call, the
\* instance's count is 0, it has no listener and the lookup table holds
\* nothing under its (key, params); the subscribe call that follows for the
\* same (key, params) creates another instance, invokes compute or combine
\* for it and leaves it with a count of 1 and the new callback as its only
\* listener
C21_SubscribeUnsubscribe ==
  [][/\ \A a \in Subscribers :
          /\ lastCall.op = "subscribe" /\ lastCall.who = a
          /\ registry.refCounts[InstanceOf(a)] = 1
          /\ lastCall'.op = "unsubscribe" /\ lastCall'.who = a
          => /\ registry'.refCounts[InstanceOf(a)] = 0
             /\ registry'.listeners[InstanceOf(a)] = {}
             /\ registry'.subscriptionCache[KeyOf(a)] = 0
     /\ \A a, b \in Subscribers :
          /\ lastCall.op = "unsubscribe" /\ lastCall.who = a
          /\ registry.subscriptionCache[KeyOf(a)] = 0
          /\ lastCall'.op = "subscribe" /\ lastCall'.who = b
          /\ closures'[b].key = closures[a].key
          /\ closures'[b].params = closures[a].params
          => /\ closures'[b].subscription = Len(registry.objects) + 1
             /\ HasConfig(closures[a].key)
                  => lastCall'.computed[Len(lastCall'.computed)] = closures[a].key
             /\ lastCall'.result = FreshResult(closures[a].key, lastCall'.state,
                                                closures[a].params, lastCall'.threw)
             /\ registry'.refCounts[closures'[b].subscription] = 1
             /\ registry'.listeners[closures'[b].subscription]
                  = {closures'[b].callback}
             /\ registry'.resultCache[InstanceOf(a)]
                  = registry.resultCache[InstanceOf(a)]]_vars

\* a count subscription was computed for one state, its only subscriber
\* unsubscribed, and the next subscriber got a new instance computed for
\* another state while the evicted instance still holds its old entry
C21_Witness ==
  /\ lastCall.op = "subscribe"
  /\ lastCall.who = "B"
  /\ lastCall.computed = <<"count">>
  /\ lastCall.result = 1
  /\ closures["A"].key = "count"
  /\ closures["B"].key = "count"
  /\ InstanceOf("A") = 1
  /\ InstanceOf("B") = 2
  /\ registry.refCounts = <<0, 1>>
  /\ registry.resultCache[1].has
  /\ registry.resultCache[1].result = NullResult
  /\ registry.subscriptionCache[KeyOf("B")] = 2

\* C22: every instance the lookup table holds has a positive reference
\* count or at least one listener
C22_TableHoldsReferenced ==
  \A c \in CacheKeys :
    registry.subscriptionCache[c] # 0
    => \/ registry.refCounts[registry.subscriptionCache[c]] > 0
       \/ registry.listeners[registry.subscriptionCache[c]] # {}

\* the result notifyListeners obtained for instance i in the step taken:
\* the entry computed for the new state, else the fallback of the old entry
NewResult(i) ==
  IF registry'.resultCache[i].has /\ registry'.resultCache[i].state = lastCall'.state
  THEN registry'.resultCache[i].result
  ELSE Fallback(registry.resultCache[i])

\* the result instance i had before the step (undefined without an entry)
PreviousResult(i) ==
  IF registry.resultCache[i].has THEN registry.resultCache[i].result ELSE Undefined

\* the step invoked the listeners of instance i
Invoked(i) ==
  \E n \in 1..Len(lastCall'.called) : lastCall'.called[n].subscription = i

\* C23: a notifyListeners(newState) call leaves every instance that has a
\* listener and a registered key with an entry computed for newState (unless
\* compute throws), invokes an instance's listeners exactly when its new
\* result is not deep-equal to its previous one, and invokes nothing for an
\* instance without listeners
C23_NotifyIffChanged ==
  [][lastCall'.op = "notifyListeners" =>
       \A i \in 1..Len(registry.objects) :
         IF registry.listeners[i] = {}
         THEN ~Invoked(i)
         ELSE /\ HasConfig(registry.objects[i].key) /\ ~lastCall'.threw
                 => /\ registry'.resultCache[i].has
                    /\ registry'.resultCache[i].state = lastCall'.state
              /\ Invoked(i) <=> ~deepEqual(PreviousResult(i), NewResult(i))]_vars

\* the cache entry of the instance reg stores for (key, params), if any
CachedIn(reg, key, params) ==
  LET i == reg.subscriptionCache[getCacheKey(key, params)] IN
  IF i = 0 THEN NoCache ELSE reg.resultCache[i]

\* the previously cached result if there is one, else undefined
CachedOrUndefined(cached) == IF cached.has THEN cached.result ELSE Undefined

\* C24: a query or subscribe call of the leaf subscription in which compute
\* throws yields the result its instance had cached before, or undefined
\* when it had none, and leaves the instance's cache entry as it was; a
\* notifyListeners call in which compute throws leaves the entries of the
\* leaf instances it visits as they were and passes listeners nothing but
\* the previously cached result
C24_FallbackOnThrow ==
  [][/\ lastQuery'.threw /\ lastQuery'.key = "count"
        => /\ lastQuery'.result
                = CachedOrUndefined(CachedIn(registry, "count", lastQuery'.params))
           /\ CachedIn(registry', "count", lastQuery'.params)
                = CachedIn(registry, "count", lastQuery'.params)
     /\ \A a \in Subscribers :
          /\ lastCall'.op = "subscribe" /\ lastCall'.who = a /\ lastCall'.threw
          /\ closures[a] = NoClosure
          /\ closures'[a].key = "count"
          => /\ lastCall'.result
                  = CachedOrUndefined(CachedIn(registry, "count", closures'[a].params))
             /\ CachedIn(registry', "count", closures'[a].params)
                  = CachedIn(registry, "count", closures'[a].params)
     /\ lastCall'.op = "notifyListeners" /\ lastCall'.threw
        => \A n \in 1..Len(lastCall'.called) :
             LET i == lastCall'.called[n].subscription IN
             registry.objects[i].key = "count"
             => /\ lastCall'.called[n].result
                     = CachedOrUndefined(registry.resultCache[i])
                /\ registry'.resultCache[i] = registry.resultCache[i]]_vars

\* the errors of kind error in a list of reported errors
ErrorsOf(reported, error) ==
  {n \in 1..Len(reported) : reported[n].error = error}

\* C25: after a query, subscribe or notifyListeners call in which compute
\* threw, the error has been passed to the registered error handler and
\* none has gone to the console only
C25_ComputeErrorsRouted ==
  /\ lastQuery.threw => ErrorsOf(lastQuery.handled, "compute") # {}
  /\ lastCall.threw => /\ ErrorsOf(lastCall.handled, "compute") # {}
                       /\ ErrorsOf(lastCall.logged, "compute") = {}

\* C26: with rethrow false, a step in which the registered error handler
\* threw inside errorHandler.handle continues where a handled error
\* continues: control resumes after the catch block that awaited handle,
\* the event's error, the state, the effect records and every dispatch
\* promise are as they were, handleEvent does not reject, and no parallel
\* effect's promise is rejected
C26_HandlerFailureContained ==
  [][/\ ~errorHandlerConfig.rethrow
     /\ pc = "err"
     /\ lastHandle'.handler = "throw"
     => /\ pc' = Resume(errRet.site)
        /\ errRet' = NoCatch
        /\ fxIdx' = IF errRet.site = "fxentry" THEN fxIdx + 1 ELSE fxIdx
        /\ UNCHANGED <<state, eventError, effectsExecuted, dispatches,
                       isProcessing, eventQueue>>
        /\ \A t \in tasks' : t.st # "rejected"]_vars

\* the db handler threw, the error handler called for it threw as well, and
\* execute is about to start the parallel stage
C26_Witness ==
  /\ ~errorHandlerConfig.rethrow
  /\ lastHandle = [site |-> "db", handler |-> "throw"]
  /\ pc = "par"
  /\ errRet = NoCatch
  /\ cur.eventKey = "fxev"
  /\ \A i \in 1..Len(dispatches) : dispatches[i].promise # "rejected"

\* C27: with rethrow false no promise returned by dispatch is rejected
C27_RejectsOnlyWithRethrow ==
  ~errorHandlerConfig.rethrow
  => \A i \in 1..Len(dispatches) : dispatches[i].promise # "rejected"

\* C28: with rethrow set, when the handling of event E ends with an
\* interceptor or effect error re-raised, the promise of the dispatch call
\* that enqueued E is rejected
C28_RethrowRejectsDispatcher ==
  [][/\ errorHandlerConfig.rethrow
     /\ pc = "reject"
     /\ eventError # NoError
     /\ pc' = "idle"
     => dispatches'[cur.id].promise = "rejected"]_vars

\* C29: a query of or a subscription to a subscription key that is not
\* registered never invokes the registered error handler
C29_UnregisteredNotHandled ==
  /\ lastQuery.key # "none" /\ ~HasConfig(lastQuery.key)
     => lastQuery.handled = <<>>
  /\ lastCall.op = "subscribe" /\ ~HasConfig(closures[lastCall.who].key)
     => lastCall.handled = <<>>

\* C30: the step in which the drain takes an event whose key has no
\* registered chain changes no state, calls no coeffect provider (the context
\* keeps its empty coeffects, no rejection), runs no interceptor and no
\* effect, settles no promise, and leaves the drain running at the loop
\* head, where the next queued event is taken
C30_NoChainSkipped ==
  [][/\ pc \in {"start", "drain"}
     /\ eventQueue # <<>>
     /\ eventQueue' = Tail(eventQueue)
     /\ registrar.event[Head(eventQueue).eventKey] = <<>>
     => /\ pc' = "drain"
        /\ isProcessing'
        /\ done' = done + 1
        /\ UNCHANGED <<state, cur, context, stateBefore, ran, tasks,
                       effectsExecuted, fxLog, fxIdx, eventError, errRet,
                       dispatches, drainOwner, expected>>]_vars

\* with rethrow set every failing event ends the drain, and every handled
\* event changes the state: the first event of this drain was skipped for
\* want of a chain, and the drain has gone on to the event queued behind it
C30_Witness ==
  /\ errorHandlerConfig.rethrow
  /\ registrar = InitRegistrar("builtin")
  /\ state = 0
  /\ done = 1
  /\ isProcessing
  /\ drainOwner = 1
  /\ cur.id = 2
  /\ pc = "before"
  /\ context.coeffects.cofx = "provided"

\* C34 as stated: at every point of the before phase queue ++ reverse(stack)
\* is the event's registered chain
C34_QueueReverseStack ==
  pc = "before"
  => context.queue \o Reverse(context.stack) = registrar.event[cur.eventKey]

\* C34: at every point of the before phase stack ++ queue is the event's
\* registered chain; when the before phase completes without error the queue
\* is empty and stack is the whole chain in run order; no step of the
\* before and after loops changes the chain stored in the registrar
C34_StackQueueChain ==
  [][/\ pc' = "before" \/ (pc' = "err" /\ errRet'.site = "before")
        => context'.stack \o context'.queue = registrar.event[cur'.eventKey]
     /\ pc = "before" /\ pc' = "after"
        => /\ context'.queue = <<>>
           /\ context'.stack = registrar.event[cur.eventKey]
     /\ cur # NoEvent /\ pc \in {"before", "after"}
        => registrar'.event[cur.eventKey] = registrar.event[cur.eventKey]]_vars

\* the before phase of an increment has completed: the whole chain of three
\* is on the stack, outermost interceptor first
C34_Witness ==
  /\ pc = "after"
  /\ cur.eventKey = "inc"
  /\ eventError = NoError
  /\ context.queue = <<>>
  /\ context.stack = <<i1, i2, dbHandlerToInterceptor>>
  /\ ran = <<[id |-> "i1", direction |-> "before"],
             [id |-> "i2", direction |-> "before"],
             [id |-> "db-handler", direction |-> "before"]>>

\* C35: when the handler invoked for an fx entry settles, one record for
\* it is appended to the effect-execution list of the event
C35_FxEntryRecorded ==
  [][pc = "fxrun" /\ pc' # "fxrun"
     => /\ Len(effectsExecuted') = Len(effectsExecuted) + 1
        /\ effectsExecuted'[Len(effectsExecuted')].effectType
             = FxEntry(context.effects.fx, fxIdx).kind]_vars

\* C37: when another subscriber invokes its closure right after subscriber
\* b subscribed, b's callback is still a listener of b's instance and the
\* lookup table still holds that instance
C37_CallbackStaysRegistered ==
  [][\A a, b \in Subscribers :
       /\ a # b
       /\ lastCall.op = "subscribe" /\ lastCall.who = b
       /\ lastCall'.op = "unsubscribe" /\ lastCall'.who = a
       => /\ closures[b].callback \in registry'.listeners[InstanceOf(b)]
          /\ registry'.subscriptionCache[KeyOf(b)] = InstanceOf(b)]_vars

\* C38: a closure invoked a second time, right after its first invocation,
\* changes nothing in the registry
C38_SecondInvocationNoOp ==
  [][\A a \in Subscribers :
       /\ lastCall.op = "unsubscribe" /\ lastCall.who = a
       /\ lastCall'.op = "unsubscribe" /\ lastCall'.who = a
       => registry' = registry]_vars

\* C39: once errorHandler.handle has invoked the registered handler for an
\* error, no other catch block passes the same error to handle again
C39_HandledOnce ==
  [][pc = "err" /\ pc' = "err" /\ errRet' # errRet
     => errRet'.error # errRet.error]_vars

\* the lookup table holds object i
InTable(reg, i) ==
  reg.subscriptionCache[getCacheKey(reg.objects[i].key, reg.objects[i].params)] = i

\* C36: after a notifyListeners(s) in which no computation threw, the
\* result last passed to the listeners of every instance of the directly
\* computed key that is in the lookup table and has listeners is deep-equal
\* to compute's result for s
C36_ListenersCurrent ==
  lastCall.op = "notifyListeners" /\ ~lastCall.threw
  => \A i \in 1..Len(registry.objects) :
       /\ InTable(registry, i)
       /\ registry.listeners[i] # {}
       /\ registry.objects[i].key = "count"
       => /\ delivered[i].has
          /\ deepEqual(delivered[i].result,
                       compute(lastCall.state, registry.objects[i].params))

\* C33: when a promise returned by flush resolves, the event queue is empty
\* and no event is being handled
C33_FlushResolvedDrained ==
  lastFlush = "resolved"
  => /\ eventQueue = <<>>
     /\ cur = NoEvent


\* the event keys the deregister-event-handler entries of an effect map list
Declared(effects) ==
  UNION {{Entries(effects.par[i].config)[j] :
            j \in 1..Len(Entries(effects.par[i].config))} :
          i \in {n \in 1..Len(effects.par) :
                   effects.par[n].kind = "deregister-event-handler"}}

\* C32 as stated: whenever the handling of an event ends, every key its
\* effect map lists under deregister-event-handler has no handler
C32_CompletedDeregisters ==
  [][cur # NoEvent /\ cur' = NoEvent
       => \A k \in Declared(context.effects) : registrar'.event[k] = <<>>]_vars

\* C32 amended: once the effect stage of an event has run its
\* deregister-event-handler entry, no listed key has a handler, and none
\* gets one back; an event for a key without handler that is taken from the
\* queue, whenever it was put there, is skipped and leaves the state, the
\* registrar and the running handlers as they were; the event that declared
\* the entry keeps its context, and when it ends without error its whole
\* chain has run and its db, parallel and fx effects were executed
C32_ExecutedDeregisters ==
  [][/\ pc = "par" /\ pc' = "parwait"
          => /\ \A k \in Declared(context.effects) : registrar'.event[k] = <<>>
             /\ cur' = cur
             /\ context' = context
     /\ \A k \in DOMAIN registrar.event :
          registrar.event[k] = <<>> => registrar'.event[k] = <<>>
     /\ (/\ pc \in {"start", "drain"}
         /\ eventQueue # <<>>
         /\ registrar.event[Head(eventQueue).eventKey] = <<>>
         /\ eventQueue' = Tail(eventQueue))
          => /\ state' = state
             /\ registrar' = registrar
             /\ tasks' = tasks
             /\ cur' = NoEvent
             /\ pc' = "drain"
     /\ pc = "finish" /\ cur.eventKey = "dereg" /\ eventError = NoError
          => /\ ran = << [id |-> "i1", direction |-> "before"],
                         [id |-> "fx-handler", direction |-> "before"],
                         [id |-> "i1", direction |-> "after"] >>
             /\ {"db", "deregister-event-handler", "a", "fx"}
                  \subseteq {effectsExecuted[i].effectType :
                               i \in 1..Len(effectsExecuted)}]_vars

\* an inc dispatched after a dereg heads the queue when dereg has been
\* handled and inc has no handler any more
C32_Witness ==
  /\ pc = "drain"
  /\ cur = NoEvent
  /\ done >= 1
  /\ eventQueue # <<>>
  /\ Head(eventQueue) = [eventKey |-> "inc", id |-> 2]
  /\ registrar.event["inc"] = <<>>
  /\ registrar.event["dereg"] = <<>>
  /\ state = 3


\* the dispatch calls made by the same effect handler invocation as call j
\* and before it: the earlier targets of the dispatch-n entry j belongs to
EarlierTargets(j) ==
  {i \in 1..(j - 1) : dispatches[j].parent # 0
                       /\ dispatches[i].parent = dispatches[j].parent}

\* C31: while a later target of a dispatch-n entry is being handled, the
\* event that declared the entry and every earlier target have been taken
\* from the queue and handled, in list order, and no effect handler started
\* for an earlier target is still running
C31_TargetsSequential ==
  cur # NoEvent
  => \A i \in EarlierTargets(cur.id) :
       /\ cur.eventKey = "inc"
       /\ \A n \in 1..Len(eventQueue) :
            eventQueue[n].id \notin {i, dispatches[i].parent}
       /\ \A t \in tasks : t.ev # i


\* the path an event's chain of path interceptors focuses on: the
\* concatenation of their pathKeys
Focus(eventKey) == IF eventKey = "pth" THEN <<"a">> ELSE <<"a", "b">>

\* C40: the handler of an event registered with path interceptors is called
\* with the value at the focused path of the state the event found, and
\* when the event has executed its db effect the state is the state it
\* found with the value at the focused path replaced by the handler's
\* result and everything else unchanged; for path(a), path(b) the focused
\* path is a ++ b
C40_PathGrafted ==
  [][/\ (/\ pc = "before"
         /\ context.queue # <<>>
         /\ Head(context.queue).id = "db-handler"
         /\ pc' = "after")
        => /\ context.coeffects.db = getIn(stateBefore, Focus(cur.eventKey))
           /\ context'.effects.db = Bump(getIn(stateBefore, Focus(cur.eventKey)))
     /\ pc = "db" /\ pc' = "par"
        => state' = assocIn(stateBefore, Focus(cur.eventKey),
                            Bump(getIn(stateBefore, Focus(cur.eventKey))))]_vars

====
